---------------------------- MODULE Spec2Model ----------------------------
(***************************************************************************)
(* scripts/convert-icon.py: icon.png is vectorized twice.  The colour      *)
(* conversion hands the bitmap to the external vectorizer.  The monochrome *)
(* conversion classifies every pixel into a black/white silhouette, saves  *)
(* it under a fixed temporary path, has the vectorizer trace it in binary  *)
(* mode into a second fixed temporary path, reads that markup back,        *)
(* extracts path elements by text matching, rewrites their fill and writes *)
(* the final document.                                                     *)
(*                                                                         *)
(* Text is modelled as sequences of one-character strings, so the regular  *)
(* expressions and substring tests of the script are computed on           *)
(* characters.  A bitmap is a record [w, h, data] with data the row-major  *)
(* list of <<r, g, b, a>> pixels (Image.getdata()).                        *)
(***************************************************************************)
EXTENDS Integers, Sequences, FiniteSets, TLC

(***************************************************************************)
(* Bounds of the model.                                                    *)
(***************************************************************************)
\* widest / tallest source bitmap of the pixel specification
MaxDim ==
    2

\* most elements in one document returned by the vectorizer
MaxElems ==
    2

(***************************************************************************)
(* Constants of the script.                                                *)
(***************************************************************************)
\* "a > 50"
AlphaThreshold ==
    50

\* "r > 250 and g > 250 and b > 250"
NearWhite ==
    250

\* the channel value of the two silhouette colours
ChannelMax ==
    255

Procs ==
    {1, 2}

(***************************************************************************)
(* Pixel classification (lines 39-46).                                     *)
(***************************************************************************)
Black ==
    <<0, 0, 0, ChannelMax>>

White ==
    <<ChannelMax, ChannelMax, ChannelMax, ChannelMax>>

\* a faulty variant of ClassifyPixel: the alpha test is >= instead of >
ClassifyPixelGe(item) ==
    IF item[4] >= AlphaThreshold
          /\ ~(item[1] > NearWhite /\ item[2] > NearWhite /\ item[3] > NearWhite)
    THEN Black
    ELSE White

\* a faulty variant of ClassifyPixel: a kept pixel keeps its own colour
ClassifyPixelKeep(item) ==
    IF item[4] > AlphaThreshold
          /\ ~(item[1] > NearWhite /\ item[2] > NearWhite /\ item[3] > NearWhite)
    THEN item
    ELSE White

\* a faulty variant of ClassifyPixel: only pure white counts as white
ClassifyPixelPureWhite(item) ==
    IF item[4] > AlphaThreshold
          /\ ~(item[1] >= ChannelMax /\ item[2] >= ChannelMax /\ item[3] >= ChannelMax)
    THEN Black
    ELSE White

ClassifyPixel(item) ==
    LET r == item[1]
        g == item[2]
        b == item[3]
        a == item[4]
    IN  IF a > AlphaThreshold /\ ~(r > NearWhite /\ g > NearWhite /\ b > NearWhite)
        THEN Black
        ELSE White

\* the loop over data that fills new_data
Silhouette(data) ==
    [i \in 1..Len(data) |-> ClassifyPixel(data[i])]

\* a missing bitmap file
NoPng ==
    [w |-> 0, h |-> 0, data |-> <<>>]

\* Image.new('RGBA', (width, height)) followed by putdata(new_data)
SilhouetteImage(img, new_data) ==
    [w |-> img.w, h |-> img.h, data |-> new_data]

(***************************************************************************)
(* Text: the literals of the script.                                       *)
(***************************************************************************)
\* the literal head of the pattern r'<path[^>]+/>'
ReStartPath ==
    <<"<", "p", "a", "t", "h">>

\* the literal head of the pattern r'fill="[^"]*"'
ReFillOpen ==
    <<"f", "i", "l", "l", "=", "\"">>

\* the replacement text 'fill="currentColor"'
FillCurrentColor ==
    <<"f", "i", "l", "l", "=", "\"", "c", "u", "r", "r", "e", "n", "t", "C", "o", "l", "o", "r", "\"">>

NeedleHash000 ==
    <<"#", "0", "0", "0">>

NeedleBlack ==
    <<"b", "l", "a", "c", "k">>

NeedleHashfff ==
    <<"#", "f", "f", "f">>

NeedleHashFFF ==
    <<"#", "F", "F", "F">>

\* the first line of svg_content
SvgOpenLine ==
    <<"<", "s", "v", "g", " ", "x", "m", "l", "n", "s", "=", "\"", "h", "t", "t", "p", ":", "/", "/", "w", "w", "w", ".", "w", "3", ".", "o", "r", "g", "/", "2", "0", "0", "0", "/", "s", "v", "g", "\"", " ", "v", "i", "e", "w", "B", "o", "x", "=", "\"", "0", " ", "0", " ", "1", "2", "0", "6", " ", "1", "2", "0", "6", "\"", " ", "w", "i", "d", "t", "h", "=", "\"", "2", "4", "\"", " ", "h", "e", "i", "g", "h", "t", "=", "\"", "2", "4", "\"", " ", "f", "i", "l", "l", "=", "\"", "c", "u", "r", "r", "e", "n", "t", "C", "o", "l", "o", "r", "\"", ">", "\n">>

SvgClose ==
    <<"<", "/", "s", "v", "g", ">">>

Newline ==
    <<"\n">>

\* a text file that does not exist
NoFile ==
    <<"NOFILE">>

(***************************************************************************)
(* Text: the operations of the script, computed on characters.             *)
(***************************************************************************)
\* pat occurs in s at position i
MatchAt(s, i, pat) ==
    /\ i >= 1
    /\ i + Len(pat) - 1 <= Len(s)
    /\ \A k \in 1..Len(pat) : s[i + k - 1] = pat[k]

\* Python's "pat in s"
Contains(s, pat) ==
    \E i \in 1..Len(s) : MatchAt(s, i, pat)

UpperToLower ==
    [c \in {"A", "B", "C", "D", "E", "F", "G", "H", "I", "J", "K", "L", "M",
            "N", "O", "P", "Q", "R", "S", "T", "U", "V", "W", "X", "Y", "Z"} |->
        CASE c = "A" -> "a" [] c = "B" -> "b" [] c = "C" -> "c" [] c = "D" -> "d"
          [] c = "E" -> "e" [] c = "F" -> "f" [] c = "G" -> "g" [] c = "H" -> "h"
          [] c = "I" -> "i" [] c = "J" -> "j" [] c = "K" -> "k" [] c = "L" -> "l"
          [] c = "M" -> "m" [] c = "N" -> "n" [] c = "O" -> "o" [] c = "P" -> "p"
          [] c = "Q" -> "q" [] c = "R" -> "r" [] c = "S" -> "s" [] c = "T" -> "t"
          [] c = "U" -> "u" [] c = "V" -> "v" [] c = "W" -> "w" [] c = "X" -> "x"
          [] c = "Y" -> "y" [] c = "Z" -> "z"]

\* str.lower()
Lower(s) ==
    [i \in 1..Len(s) |-> IF s[i] \in DOMAIN UpperToLower THEN UpperToLower[s[i]] ELSE s[i]]

\* the least member of a non-empty set of positions
Least(S) ==
    CHOOSE x \in S : \A y \in S : x <= y

\* the least j >= i with s[j] = c, or 0 when there is none
IndexFrom(s, i, c) ==
    LET at == {j \in i..Len(s) : s[j] = c}
    IN  IF at = {} THEN 0 ELSE Least(at)

\* where a match of r'<path[^>]+/>' that starts at i ends, or 0 when none
\* starts there: [^>]+ cannot cross a ">", so the match ends at the first ">"
\* after "<path", which must follow a "/" and leave [^>]+ one character
PathEnd(s, i) ==
    LET j == IndexFrom(s, i + Len(ReStartPath), ">")
    IN  IF /\ MatchAt(s, i, ReStartPath)
           /\ j >= i + Len(ReStartPath) + 2
           /\ s[j - 1] = "/"
        THEN j
        ELSE 0

\* re.findall(r'<path[^>]+/>', s), scanning from position i: the leftmost
\* match at or after i, then the scan goes on behind it
RECURSIVE FindAllPaths(_, _)
FindAllPaths(s, i) ==
    LET starts == {k \in i..Len(s) : PathEnd(s, k) # 0}
    IN  IF starts = {} THEN <<>>
        ELSE <<SubSeq(s, Least(starts), PathEnd(s, Least(starts)))>>
                \o FindAllPaths(s, PathEnd(s, Least(starts)) + 1)

\* where a match of r'fill="[^"]*"' that starts at i ends, or 0
FillEnd(s, i) ==
    IF MatchAt(s, i, ReFillOpen)
    THEN IndexFrom(s, i + Len(ReFillOpen), "\"")
    ELSE 0

\* re.sub(r'fill="[^"]*"', 'fill="currentColor"', s), scanning from position i:
\* the text up to the leftmost match is kept, the match is replaced, and the
\* scan goes on behind it
RECURSIVE SubFill(_, _)
SubFill(s, i) ==
    LET starts == {k \in i..Len(s) : FillEnd(s, k) # 0}
    IN  IF starts = {} THEN SubSeq(s, i, Len(s))
        ELSE SubSeq(s, i, Least(starts) - 1)
                \o FillCurrentColor
                \o SubFill(s, FillEnd(s, Least(starts)) + 1)

\* a faulty variant of IsBlackPath: the name is matched case-sensitively
IsBlackPathCaseSensitive(p) ==
    Contains(p, NeedleHash000) \/ Contains(p, NeedleBlack)

\* line 72: '#000' in p or 'black' in p.lower()
IsBlackPath(p) ==
    Contains(p, NeedleHash000) \/ Contains(Lower(p), NeedleBlack)

\* line 75: '#fff' not in p and '#FFF' not in p
IsNotWhitePath(p) ==
    ~Contains(p, NeedleHashfff) /\ ~Contains(p, NeedleHashFFF)

\* lines 71-75: paths, black_paths and the fallback
ExtractPaths(text) ==
    LET paths == FindAllPaths(text, 1)
        black_paths == SelectSeq(paths, IsBlackPath)
    IN  IF black_paths = <<>>
        THEN SelectSeq(paths, IsNotWhitePath)
        ELSE black_paths

\* the loop of lines 80-82
RECURSIVE AppendPaths(_)
AppendPaths(black_paths) ==
    IF black_paths = <<>> THEN <<>>
    ELSE SubFill(Head(black_paths), 1) \o Newline \o AppendPaths(Tail(black_paths))

\* lines 77-84: svg_content
Assemble(black_paths) ==
    SvgOpenLine \o AppendPaths(black_paths) \o SvgClose

(***************************************************************************)
(* The external vectorizer.  It is a black box to the script: the model    *)
(* lets it return any document of a bounded family, made of the element    *)
(* forms the script's own tests distinguish.                               *)
(***************************************************************************)
TracerHeader ==
    <<"<", "s", "v", "g", " ", "v", "e", "r", "s", "i", "o", "n", "=", "\"", "1", ".", "1", "\"", ">", "\n">>

PathD ==
    <<"<", "p", "a", "t", "h", " ", "d", "=", "\"", "M", "0", " ", "0", "Z", "\"">>

SelfClose ==
    <<"/", ">">>

PairClose ==
    <<">", "<", "/", "p", "a", "t", "h", ">">>

\* fill="v"
FillDq(v) ==
    <<" ", "f", "i", "l", "l", "=", "\"">> \o v \o <<"\"">>

\* fill='v'
FillSq(v) ==
    <<" ", "f", "i", "l", "l", "=", "'">> \o v \o <<"'">>

HexBlack ==
    <<"#", "0", "0", "0", "0", "0", "0">>

HexWhiteLower ==
    <<"#", "f", "f", "f", "f", "f", "f">>

HexWhiteUpper ==
    <<"#", "F", "F", "F", "F", "F", "F">>

NameBlack ==
    <<"B", "l", "a", "c", "k">>

NameWhite ==
    <<"w", "h", "i", "t", "e">>

HexBlue ==
    <<"#", "0", "0", "0", "0", "f", "f">>

HexGrey ==
    <<"#", "8", "0", "8", "0", "8", "0">>

HexRed ==
    <<"#", "f", "f", "0", "0", "0", "0">>

ElBlackHex   == PathD \o FillDq(HexBlack) \o SelfClose
ElBlackName  == PathD \o FillDq(NameBlack) \o SelfClose
ElBlackSq    == PathD \o FillSq(HexBlack) \o SelfClose
ElBlackPair  == PathD \o FillDq(HexBlack) \o PairClose
ElBlue       == PathD \o FillDq(HexBlue) \o SelfClose
ElGrey       == PathD \o FillDq(HexGrey) \o SelfClose
ElWhiteLower == PathD \o FillDq(HexWhiteLower) \o SelfClose
ElWhiteUpper == PathD \o FillDq(HexWhiteUpper) \o SelfClose
ElWhiteName  == PathD \o FillDq(NameWhite) \o SelfClose
ElRed        == PathD \o FillDq(HexRed) \o SelfClose

\* the element forms of a binary-mode document
Elems ==
    {ElBlackHex, ElBlackName, ElBlackSq, ElBlackPair, ElBlue, ElGrey,
     ElWhiteLower, ElWhiteUpper, ElWhiteName}

ElemSeqs ==
    UNION {[1..n -> Elems] : n \in 0..MaxElems}

RECURSIVE Lines(_)
Lines(es) ==
    IF es = <<>> THEN <<>> ELSE Head(es) \o Newline \o Lines(Tail(es))

\* the document holding the elements es, one per line
Render(es) ==
    TracerHeader \o Lines(es) \o SvgClose

\* what the vectorizer may write in binary mode
Docs ==
    {Render(es) : es \in ElemSeqs}

\* what the vectorizer may write in colour mode
ColorDocs ==
    {Render(<<ElRed>>), Render(<<ElBlue, ElRed>>)}

\* what the temporary files may hold before a run
StaleSvg ==
    Render(<<ElGrey>>)

StaleSvgOther ==
    Render(<<ElBlackHex, ElBlackHex>>)

StalePng ==
    [w |-> 1, h |-> 1, data |-> <<Black>>]

StalePngWhite ==
    [w |-> 1, h |-> 1, data |-> <<White>>]

\* <<icon_silhouette.png, silhouette.svg>> as a run may find them
ScribbleTmp ==
    {<<NoPng, NoFile>>, <<StalePng, StaleSvg>>, <<StalePngWhite, StaleSvgOther>>}

(***************************************************************************)
(* State.                                                                  *)
(***************************************************************************)
VARIABLES
    pc,            \* pc[p]: where invocation p stands
    src,           \* src[p]: the bitmap file input_png of invocation p
    frame,         \* frame[p]: the local variables of invocation p
    tmpPng,        \* the file /tmp/icon_silhouette.png
    tmpSvg,        \* the file /tmp/silhouette.svg
    colorOut,      \* colorOut[p]: the file icon.svg of the run of p
    monoOut,       \* monoOut[p]: the file output_svg of invocation p
    memo,          \* the answers the vectorizer has given: it is a function
    reran,         \* history: the entry point has been run again
    colorWritten,  \* history: this run has written the colour output
    monoWritten,   \* history: this run has written the monochrome output
    failedAt,      \* history: failedAt[p] is the step at which p aborted
    firstOut,      \* history: the outputs of the first completed run
    startTmp,      \* history: the temporary files as the current run found them
    pngFrom,       \* history: whose silhouette /tmp/icon_silhouette.png holds
    svgFrom,       \* history: whose silhouette /tmp/silhouette.svg was traced from
    usedFrom       \* history: usedFrom[p] is whose silhouette p has in hand

vars ==
    <<pc, src, frame, tmpPng, tmpSvg, colorOut, monoOut, memo, reran,
      colorWritten, monoWritten, failedAt, firstOut, startTmp, pngFrom,
      svgFrom, usedFrom>>

\* the local variables of a call before it assigns them:
\* img (with data, width, height), new_data, the bitmap the vectorizer call
\* has loaded, content, black_paths, svg_content
EmptyFrame ==
    [img |-> NoPng, new_data |-> <<>>, traceIn |-> NoPng, content |-> <<>>,
     black_paths |-> <<>>, svg_content |-> <<>>]

(***************************************************************************)
(* The vectorizer as a function: an input it has answered is answered the  *)
(* same way again, a new input gets any document of the mode's family.     *)
(***************************************************************************)
Answered(mode, input) ==
    {m \in memo : m.mode = mode /\ m.input = input}

TracerChoices(mode, input) ==
    IF Answered(mode, input) # {}
    THEN {m.doc : m \in Answered(mode, input)}
    ELSE IF mode = "color" THEN ColorDocs ELSE Docs

Remember(mode, input, doc) ==
    memo \cup {[mode |-> mode, input |-> input, doc |-> doc]}

(***************************************************************************)
(* Abort: an unhandled exception ends the invocation where it stands and   *)
(* unwinds its frame, so its local variables are gone.                     *)
(***************************************************************************)
Abort(p) ==
    /\ pc' = [pc EXCEPT ![p] = "aborted"]
    /\ failedAt' = [failedAt EXCEPT ![p] = pc[p]]
    /\ frame' = [frame EXCEPT ![p] = EmptyFrame]

\* the steps that touch a file or the vectorizer, where a failure may strike
FailPoints ==
    {"color_read", "color_write", "load", "save_png", "trace_read",
     "trace_write", "read_svg", "open_out", "write_out"}

\* any failure of the file system or of the external tool
Fail(p) ==
    /\ pc[p] \in FailPoints
    /\ Abort(p)
    /\ UNCHANGED <<src, tmpPng, tmpSvg, colorOut, monoOut, memo, reran,
                   colorWritten, monoWritten, firstOut, startTmp, pngFrom,
                   svgFrom, usedFrom>>

(***************************************************************************)
(* convert_to_color_svg (lines 12-29).                                     *)
(***************************************************************************)
\* the vectorizer loads input_png
ColorRead(p) ==
    /\ pc[p] = "color_read"
    /\ IF src[p] = NoPng
       THEN Abort(p)
       ELSE /\ frame' = [frame EXCEPT ![p].traceIn = src[p]]
            /\ pc' = [pc EXCEPT ![p] = "color_write"]
            /\ UNCHANGED failedAt
    /\ UNCHANGED <<src, tmpPng, tmpSvg, colorOut, monoOut, memo, reran,
                   colorWritten, monoWritten, firstOut, startTmp, pngFrom,
                   svgFrom, usedFrom>>

\* the entry point's next call after convert_to_color_svg returns (line 103)
AfterColor ==
    "load"

\* the vectorizer writes output_svg; the function prints and returns
ColorWrite(p) ==
    /\ pc[p] = "color_write"
    /\ \E d \in TracerChoices("color", frame[p].traceIn) :
          /\ colorOut' = [colorOut EXCEPT ![p] = d]
          /\ memo' = Remember("color", frame[p].traceIn, d)
    /\ colorWritten' = [colorWritten EXCEPT ![p] = TRUE]
    /\ frame' = [frame EXCEPT ![p] = EmptyFrame]
    /\ pc' = [pc EXCEPT ![p] = AfterColor]
    /\ UNCHANGED <<src, tmpPng, tmpSvg, monoOut, reran, monoWritten, failedAt,
                   firstOut, startTmp, pngFrom, svgFrom, usedFrom>>

(***************************************************************************)
(* convert_to_monochrome_svg (lines 32-89).                                *)
(***************************************************************************)
\* lines 35-37: Image.open(input_png).convert('RGBA'), getdata, size
Load(p) ==
    /\ pc[p] = "load"
    /\ IF src[p] = NoPng
       THEN Abort(p)
       ELSE /\ frame' = [frame EXCEPT ![p].img = src[p]]
            /\ pc' = [pc EXCEPT ![p] = "classify"]
            /\ UNCHANGED failedAt
    /\ UNCHANGED <<src, tmpPng, tmpSvg, colorOut, monoOut, memo, reran,
                   colorWritten, monoWritten, firstOut, startTmp, pngFrom,
                   svgFrom, usedFrom>>

\* lines 39-46: the silhouette pixels
Classify(p) ==
    /\ pc[p] = "classify"
    /\ frame' = [frame EXCEPT ![p].new_data = Silhouette(frame[p].img.data)]
    /\ pc' = [pc EXCEPT ![p] = "save_png"]
    /\ UNCHANGED <<src, tmpPng, tmpSvg, colorOut, monoOut, memo, reran,
                   colorWritten, monoWritten, failedAt, firstOut, startTmp,
                   pngFrom, svgFrom, usedFrom>>

\* lines 48-50: what img_bw.save leaves in /tmp/icon_silhouette.png
SavedPng(p) ==
    SilhouetteImage(frame[p].img, frame[p].new_data)

SaveSilhouette(p) ==
    /\ pc[p] = "save_png"
    /\ tmpPng' = SavedPng(p)
    /\ pngFrom' = p
    /\ pc' = [pc EXCEPT ![p] = "trace_read"]
    /\ UNCHANGED <<src, frame, tmpSvg, colorOut, monoOut, memo, reran,
                   colorWritten, monoWritten, failedAt, firstOut, startTmp,
                   svgFrom, usedFrom>>

\* a faulty variant of TracedPng: the vectorizer is handed the invocation's own bitmap
TracedPngPrivate(p) ==
    SilhouetteImage(frame[p].img, frame[p].new_data)

\* line 54: the vectorizer loads the file at the fixed path
TracedPng(p) ==
    tmpPng

\* lines 53-54: the vectorizer call loads /tmp/icon_silhouette.png
TraceRead(p) ==
    /\ pc[p] = "trace_read"
    /\ IF TracedPng(p) = NoPng
       THEN /\ Abort(p)
            /\ UNCHANGED usedFrom
       ELSE /\ frame' = [frame EXCEPT ![p].traceIn = TracedPng(p)]
            /\ usedFrom' = [usedFrom EXCEPT ![p] = pngFrom]
            /\ pc' = [pc EXCEPT ![p] = "trace_write"]
            /\ UNCHANGED failedAt
    /\ UNCHANGED <<src, tmpPng, tmpSvg, colorOut, monoOut, memo, reran,
                   colorWritten, monoWritten, firstOut, startTmp, pngFrom,
                   svgFrom>>

\* a faulty variant of TracedSvg: the vectorizer writes elsewhere, the old file stays
TracedSvgStale(d) ==
    tmpSvg

\* line 55: the vectorizer writes its document d to the file at the fixed path
TracedSvg(d) ==
    d

\* lines 55-65: the vectorizer call writes /tmp/silhouette.svg
TraceWrite(p) ==
    /\ pc[p] = "trace_write"
    /\ \E d \in TracerChoices("binary", frame[p].traceIn) :
          /\ tmpSvg' = TracedSvg(d)
          /\ memo' = Remember("binary", frame[p].traceIn, d)
    /\ svgFrom' = usedFrom[p]
    /\ pc' = [pc EXCEPT ![p] = "read_svg"]
    /\ UNCHANGED <<src, frame, tmpPng, colorOut, monoOut, reran, colorWritten,
                   monoWritten, failedAt, firstOut, startTmp, pngFrom, usedFrom>>

\* line 69: f.read() of the file at the fixed path
ReadText(p) ==
    tmpSvg

\* lines 67-69: open('/tmp/silhouette.svg') and read
ReadSvg(p) ==
    /\ pc[p] = "read_svg"
    /\ IF ReadText(p) = NoFile
       THEN /\ Abort(p)
            /\ UNCHANGED usedFrom
       ELSE /\ frame' = [frame EXCEPT ![p].content = ReadText(p)]
            /\ usedFrom' = [usedFrom EXCEPT ![p] = svgFrom]
            /\ pc' = [pc EXCEPT ![p] = "extract"]
            /\ UNCHANGED failedAt
    /\ UNCHANGED <<src, tmpPng, tmpSvg, colorOut, monoOut, memo, reran,
                   colorWritten, monoWritten, firstOut, startTmp, pngFrom,
                   svgFrom>>

\* lines 71-84: findall, the two filters, the rewrite loop
Extract(p) ==
    /\ pc[p] = "extract"
    /\ frame' = [frame EXCEPT
                    ![p].black_paths = ExtractPaths(frame[p].content),
                    ![p].svg_content = Assemble(ExtractPaths(frame[p].content))]
    /\ pc' = [pc EXCEPT ![p] = "open_out"]
    /\ UNCHANGED <<src, tmpPng, tmpSvg, colorOut, monoOut, memo, reran,
                   colorWritten, monoWritten, failedAt, firstOut, startTmp,
                   pngFrom, svgFrom, usedFrom>>

\* line 86: open(output_svg, 'w') creates or truncates the file
OpenOut(p) ==
    /\ pc[p] = "open_out"
    /\ monoOut' = [monoOut EXCEPT ![p] = <<>>]
    /\ pc' = [pc EXCEPT ![p] = "write_out"]
    /\ UNCHANGED <<src, frame, tmpPng, tmpSvg, colorOut, memo, reran,
                   colorWritten, monoWritten, failedAt, firstOut, startTmp,
                   pngFrom, svgFrom, usedFrom>>

\* lines 87-89 (and 105): f.write(svg_content), close, print, return
WriteOut(p) ==
    /\ pc[p] = "write_out"
    /\ monoOut' = [monoOut EXCEPT ![p] = frame[p].svg_content]
    /\ monoWritten' = [monoWritten EXCEPT ![p] = TRUE]
    /\ pc' = [pc EXCEPT ![p] = "done"]
    /\ firstOut' = IF firstOut.set
                   THEN [firstOut EXCEPT !.again = TRUE]
                   ELSE [set |-> TRUE, again |-> FALSE, color |-> colorOut[p],
                         mono |-> frame[p].svg_content]
    /\ UNCHANGED <<src, frame, tmpPng, tmpSvg, colorOut, memo, reran,
                   colorWritten, failedAt, startTmp, pngFrom, svgFrom, usedFrom>>

(***************************************************************************)
(* The entry point (lines 92-105), run again and again on the same source. *)
(* Between two runs anything may happen to the temporary files.            *)
(***************************************************************************)
\* a faulty variant of MainFirst: the entry point calls the monochrome conversion only
MainFirstMono ==
    "load"

\* line 102: the entry point's first call is convert_to_color_svg
MainFirst ==
    "color_read"

Rerun(p) ==
    /\ pc[p] \in {"done", "aborted"}
    /\ reran' = TRUE
    /\ pc' = [pc EXCEPT ![p] = MainFirst]
    /\ frame' = [frame EXCEPT ![p] = EmptyFrame]
    /\ \E t \in ScribbleTmp :
          /\ tmpPng' = t[1]
          /\ tmpSvg' = t[2]
          /\ startTmp' = t
    /\ pngFrom' = 0
    /\ svgFrom' = 0
    /\ usedFrom' = [usedFrom EXCEPT ![p] = 0]
    /\ colorWritten' = [colorWritten EXCEPT ![p] = FALSE]
    /\ monoWritten' = [monoWritten EXCEPT ![p] = FALSE]
    /\ failedAt' = [failedAt EXCEPT ![p] = "none"]
    /\ UNCHANGED <<src, colorOut, monoOut, memo, firstOut>>

(***************************************************************************)
(* Source bitmaps.                                                         *)
(***************************************************************************)
Transparent ==
    <<0, 0, 0, 0>>

\* one pixel fully opaque black, three fully transparent, 2 x 2
OneBlackOfFour ==
    [w |-> 2, h |-> 2, data |-> <<Black, Transparent, Transparent, Transparent>>]

\* the sources of the entry point's runs: missing, and three small icons
MainSources ==
    {NoPng,
     [w |-> 1, h |-> 1, data |-> <<Black>>],
     [w |-> 1, h |-> 1, data |-> <<Transparent>>],
     OneBlackOfFour}

\* every channel on both sides of both thresholds
ThresholdPixels ==
    {<<r, g, b, a>> : r \in {0, NearWhite, NearWhite + 1, ChannelMax},
                      g \in {0, NearWhite, NearWhite + 1, ChannelMax},
                      b \in {0, NearWhite, NearWhite + 1, ChannelMax},
                      a \in {0, AlphaThreshold, AlphaThreshold + 1, ChannelMax}}

Palette ==
    {Black, Transparent, <<NearWhite + 1, ChannelMax, NearWhite + 1, ChannelMax>>}

BitmapsOver(pixels, maxw, maxh) ==
    UNION {{[w |-> w, h |-> h, data |-> d] : d \in [1..(w * h) -> pixels]} :
              <<w, h>> \in (1..maxw) \X (1..maxh)}

\* the sources of the pixel specification
PixelSources ==
    BitmapsOver(Palette, MaxDim, MaxDim) \cup BitmapsOver(ThresholdPixels, 1, 1)

\* the sources of two concurrent invocations
ConcSources ==
    {[w |-> 1, h |-> 1, data |-> <<Black>>],
     [w |-> 1, h |-> 1, data |-> <<Transparent>>],
     [w |-> 2, h |-> 1, data |-> <<Black, Transparent>>]}

\* a second outline, so that two traced shapes differ in more than their fill
PathDOther ==
    <<"<", "p", "a", "t", "h", " ", "d", "=", "\"", "M", "1", " ", "1", "Z", "\"">>

ElBlackOther ==
    PathDOther \o FillDq(HexBlack) \o SelfClose

\* the vectorizer's answers where a specification fixes them beforehand
AnswerDocs ==
    {Render(<<ElBlackHex>>), Render(<<ElBlackOther>>), Render(<<ElBlackOther, ElWhiteLower>>),
     Render(<<ElGrey, ElBlackOther>>)}

\* the silhouette file of a source
SilhouetteOf(s) ==
    SilhouetteImage(s, Silhouette(s.data))

(***************************************************************************)
(* Specifications.                                                         *)
(***************************************************************************)
InitCommon ==
    /\ frame = [p \in Procs |-> EmptyFrame]
    /\ colorOut = [p \in Procs |-> NoFile]
    /\ monoOut = [p \in Procs |-> NoFile]
    /\ reran = FALSE
    /\ colorWritten = [p \in Procs |-> FALSE]
    /\ monoWritten = [p \in Procs |-> FALSE]
    /\ failedAt = [p \in Procs |-> "none"]
    /\ firstOut = [set |-> FALSE, again |-> FALSE, color |-> NoFile, mono |-> NoFile]
    /\ pngFrom = 0
    /\ svgFrom = 0
    /\ usedFrom = [p \in Procs |-> 0]

\* one process runs the entry point, again and again; the temporary files
\* hold anything; the vectorizer's answers to the source and to its
\* silhouette are fixed beforehand
Init ==
    /\ InitCommon
    /\ pc = [p \in Procs |-> IF p = 1 THEN MainFirst ELSE "off"]
    /\ \E s \in MainSources : src = [p \in Procs |-> IF p = 1 THEN s ELSE NoPng]
    /\ \E t \in ScribbleTmp :
          /\ tmpPng = t[1]
          /\ tmpSvg = t[2]
    /\ \E c \in ColorDocs, d \in AnswerDocs :
          memo = {[mode |-> "color", input |-> src[1], doc |-> c],
                  [mode |-> "binary", input |-> SilhouetteOf(src[1]), doc |-> d]}
    /\ startTmp = <<tmpPng, tmpSvg>>

Next ==
    \E p \in Procs :
        \/ ColorRead(p)
        \/ ColorWrite(p)
        \/ Load(p)
        \/ Classify(p)
        \/ SaveSilhouette(p)
        \/ TraceRead(p)
        \/ TraceWrite(p)
        \/ ReadSvg(p)
        \/ Extract(p)
        \/ OpenOut(p)
        \/ WriteOut(p)
        \/ Fail(p)
        \/ Rerun(p)

Spec ==
    Init /\ [][Next]_vars

\* one invocation of convert_to_monochrome_svg; the vectorizer may answer
\* with any document of its family
InitMono ==
    /\ InitCommon
    /\ pc = [p \in Procs |-> IF p = 1 THEN "load" ELSE "off"]
    /\ \E s \in MainSources : src = [p \in Procs |-> IF p = 1 THEN s ELSE NoPng]
    /\ \E t \in ScribbleTmp :
          /\ tmpPng = t[1]
          /\ tmpSvg = t[2]
    /\ memo = {}
    /\ startTmp = <<tmpPng, tmpSvg>>

NextMono ==
    \E p \in Procs :
        \/ Load(p)
        \/ Classify(p)
        \/ SaveSilhouette(p)
        \/ TraceRead(p)
        \/ TraceWrite(p)
        \/ ReadSvg(p)
        \/ Extract(p)
        \/ OpenOut(p)
        \/ WriteOut(p)
        \/ Fail(p)

SpecMono ==
    InitMono /\ [][NextMono]_vars

\* one invocation of convert_to_monochrome_svg, up to the saved silhouette
InitPixels ==
    /\ InitCommon
    /\ pc = [p \in Procs |-> IF p = 1 THEN "load" ELSE "off"]
    /\ \E s \in PixelSources : src = [p \in Procs |-> IF p = 1 THEN s ELSE NoPng]
    /\ \E t \in ScribbleTmp :
          /\ tmpPng = t[1]
          /\ tmpSvg = t[2]
    /\ memo = {}
    /\ startTmp = <<tmpPng, tmpSvg>>

NextPixels ==
    \E p \in Procs :
        \/ Load(p)
        \/ Classify(p)
        \/ SaveSilhouette(p)

SpecPixels ==
    InitPixels /\ [][NextPixels]_vars

\* two invocations of convert_to_monochrome_svg on different sources, with
\* the vectorizer's answers to their silhouettes fixed beforehand
InitConc ==
    /\ InitCommon
    /\ pc = [p \in Procs |-> "load"]
    /\ src \in {f \in [Procs -> ConcSources] : f[1] # f[2]}
    /\ tmpPng = NoPng
    /\ tmpSvg = NoFile
    /\ startTmp = <<tmpPng, tmpSvg>>
    /\ \E ans \in [Procs -> AnswerDocs] :
          memo = {[mode |-> "binary", input |-> SilhouetteOf(src[p]), doc |-> ans[p]] :
                     p \in Procs}

SpecConc ==
    InitConc /\ [][NextMono]_vars

(***************************************************************************)
(* Properties.                                                             *)
(***************************************************************************)
\* the pixels of a bitmap that satisfy a test
Where(data, Test(_)) ==
    {i \in 1..Len(data) : Test(data[i])}

IsPureBlack(px) ==
    px = <<0, 0, 0, 255>>

IsPureWhite(px) ==
    px = <<255, 255, 255, 255>>

IsInk(px) ==
    px[4] > 50 /\ ~(px[1] > 250 /\ px[2] > 250 /\ px[3] > 250)

IsClear(px) ==
    px[4] = 0

IsNearWhite(px) ==
    px[1] > 250 /\ px[2] > 250 /\ px[3] > 250

\* the invocations that have computed their silhouette
Classified ==
    {p \in Procs : pc[p] \in {"save_png", "trace_read"}}

\* the invocations that have saved their silhouette, which no later step
\* has overwritten
Saved ==
    {p \in Procs : pc[p] = "trace_read"}

\* C1: for every pixel (r, g, b, a) of the source, the silhouette pixel at the
\* same position is opaque black iff a > 50 and not (r > 250 and g > 250 and
\* b > 250), and opaque white otherwise; a 2 x 2 source with one fully opaque
\* black and three fully transparent pixels gives one black and three white.
C1_Classification ==
    \A p \in Classified :
        LET data == src[p].data
            sil == frame[p].new_data
        IN  /\ Len(sil) = Len(data)
            /\ \A i \in 1..Len(data) :
                  /\ IsPureBlack(sil[i]) <=> IsInk(data[i])
                  /\ ~IsInk(data[i]) => IsPureWhite(sil[i])
            /\ (/\ src[p].w = 2
                /\ src[p].h = 2
                /\ Cardinality(Where(data, IsPureBlack)) = 1
                /\ Cardinality(Where(data, IsClear)) = 3)
               => /\ Cardinality(Where(sil, IsPureBlack)) = 1
                  /\ Cardinality(Where(sil, IsPureWhite)) = 3
            /\ p \in Saved => tmpPng.data = sil

\* C1, witness: the 2 x 2 example has been classified and saved.
C1_Witness ==
    /\ pc[1] = "trace_read"
    /\ src[1] = [w |-> 2, h |-> 2,
                 data |-> <<<<0, 0, 0, 255>>, <<0, 0, 0, 0>>, <<0, 0, 0, 0>>, <<0, 0, 0, 0>>>>]
    /\ tmpPng.data = <<<<0, 0, 0, 255>>, <<255, 255, 255, 255>>,
                       <<255, 255, 255, 255>>, <<255, 255, 255, 255>>>>

\* the distinct pixel values of a bitmap
Values(data) ==
    {data[i] : i \in 1..Len(data)}

\* C8, as stated: the silhouette has the dimensions of the source and exactly
\* two distinct pixel values, pure opaque black and pure opaque white.
C8_ExactlyTwoValues ==
    \A p \in Saved :
        /\ tmpPng.w = src[p].w
        /\ tmpPng.h = src[p].h
        /\ Values(tmpPng.data) = {<<0, 0, 0, 255>>, <<255, 255, 255, 255>>}

\* C8, amended: the silhouette has the dimensions of the source, one pixel
\* for each source pixel, and every pixel is pure opaque black or pure opaque
\* white: at most two distinct values, and only one for a uniform silhouette.
C8_OnlyBlackOrWhite ==
    \A p \in Saved :
        /\ tmpPng.w = src[p].w
        /\ tmpPng.h = src[p].h
        /\ Len(tmpPng.data) = src[p].w * src[p].h
        /\ Values(tmpPng.data) \subseteq {<<0, 0, 0, 255>>, <<255, 255, 255, 255>>}

\* C8, witness: a saved silhouette that is wider than high and has both values.
C8_Witness ==
    /\ pc[1] = "trace_read"
    /\ src[1].w = 2
    /\ src[1].h = 1
    /\ tmpPng.w = 2
    /\ tmpPng.h = 1
    /\ Cardinality(Values(tmpPng.data)) = 2

\* C9: a source whose pixels are all fully opaque black gives a silhouette
\* that is all black; a source whose pixels are all fully transparent, or all
\* near-white (red, green and blue above 250), gives one that is all white.
C9_UniformSources ==
    \A p \in Saved :
        LET data == src[p].data
            all == 1..Len(data)
        IN  /\ Where(data, IsPureBlack) = all
               => Where(tmpPng.data, IsPureBlack) = all
            /\ (Where(data, IsClear) = all \/ Where(data, IsNearWhite) = all)
               => Where(tmpPng.data, IsPureWhite) = all

\* C9, witness: an opaque source of four near-white pixels, none of them pure
\* white, has been saved as an all-white silhouette.
C9_Witness ==
    /\ pc[1] = "trace_read"
    /\ Len(src[1].data) = 4
    /\ \A i \in 1..4 : IsNearWhite(src[1].data[i]) /\ src[1].data[i][4] = 255
                          /\ ~IsPureWhite(src[1].data[i])
    /\ Where(tmpPng.data, IsPureWhite) = 1..4

\* how many path elements a document holds
ShapeCount(doc) ==
    Cardinality({i \in 1..Len(doc) : MatchAt(doc, i, <<"<", "p", "a", "t", "h">>)})

\* C2: the final document holds at least one path element whenever the
\* source has a foreground pixel, whatever the vectorizer returned.
C2_AlwaysAShape ==
    \A p \in Procs :
        (pc[p] = "done" /\ Where(src[p].data, IsInk) # {})
            => ShapeCount(monoOut[p]) >= 1

\* the path elements of a final document
ShapesOf(doc) ==
    LET found == FindAllPaths(doc, 1)
    IN  {found[i] : i \in 1..Len(found)}

\* C3: every path element of the final document has its fill attribute equal
\* to currentColor, and carries no other fill.
C3_FillIsPlaceholder ==
    \A p \in Procs :
        pc[p] = "done" =>
            \A e \in ShapesOf(monoOut[p]) :
                /\ Contains(e, <<" ", "f", "i", "l", "l", "=", "\"", "c", "u", "r", "r", "e",
                                 "n", "t", "C", "o", "l", "o", "r", "\"">>)
                /\ Cardinality({i \in 1..Len(e) : MatchAt(e, i, <<"f", "i", "l", "l">>)}) = 1

\* the invocations that have extracted their paths
Extracted ==
    {p \in Procs : pc[p] \in {"open_out", "write_out", "done"}}

\* the elements the vectorizer put into a document, in order: the lines
\* between its first line and its last
ElemsOf(text) ==
    LET breaks == {i \in 1..Len(text) : text[i] = "\n"}
        Break(k) == CHOOSE i \in breaks : Cardinality({j \in breaks : j <= i}) = k
    IN  [k \in 1..(Cardinality(breaks) - 1) |->
            SubSeq(text, Break(k) + 1, Break(k + 1) - 1)]

DenotesBlack(e) ==
    e \in {ElBlackHex, ElBlackName, ElBlackSq, ElBlackPair}

DenotesNoWhite(e) ==
    e \notin {ElWhiteLower, ElWhiteUpper, ElWhiteName}

IsSelfClosing(e) ==
    e # ElBlackPair

\* the text of the element holds #000, or black in any case
HoldsBlackText(e) ==
    e \in {ElBlackHex, ElBlackName, ElBlackSq, ElBlackPair, ElBlue}

\* the text of the element holds neither #fff nor #FFF
HoldsNoWhiteText(e) ==
    e \notin {ElWhiteLower, ElWhiteUpper}

\* the element with each fill="..." replaced by fill="currentColor"
WithPlaceholder(e) ==
    IF e = ElBlackSq
    THEN e
    ELSE PathD \o FillDq(<<"c", "u", "r", "r", "e", "n", "t", "C", "o", "l", "o", "r">>)
               \o SelfClose

\* the elements the extraction is to retain, by the text they hold
RetainedByText(es) ==
    LET found == SelectSeq(es, IsSelfClosing)
    IN  IF SelectSeq(found, HoldsBlackText) # <<>>
        THEN SelectSeq(found, HoldsBlackText)
        ELSE SelectSeq(found, HoldsNoWhiteText)

C5_EmptyIsFatal ==
    \A p \in Procs : pc[p] = "done" => frame[p].black_paths # <<>>

MonoSteps ==
    {"load", "classify", "save_png", "trace_read", "trace_write", "read_svg",
     "extract", "open_out", "write_out"}

C7_SameOutputs ==
    \A p \in Procs :
        (pc[p] = "done" /\ firstOut.set)
            => colorOut[p] = firstOut.color /\ monoOut[p] = firstOut.mono

\* C7, witness: a later run has completed; it found stale temporary files of
\* another bitmap, and outputs of an earlier run.
C7_Witness ==
    /\ pc[1] = "done"
    /\ firstOut.again
    /\ startTmp = <<StalePng, StaleSvg>>
    /\ SilhouetteOf(src[1]) # StalePng
    /\ monoOut[1] # Assemble(ExtractPaths(StaleSvg))

\* the vectorizer's answer to the silhouette of a source
AnswerTo(s) ==
    (CHOOSE m \in memo : m.mode = "binary" /\ m.input = SilhouetteOf(s)).doc

\* the final document an invocation on source s builds when left alone
AloneDoc(s) ==
    Assemble(ExtractPaths(AnswerTo(s)))

\* C10: the two fixed temporary paths are not guarded: a completed invocation
\* has built its final document from whatever the paths held when it read
\* them, the other invocation's silhouette included.
C10_BuiltFromPathsAsFound ==
    \A p \in Procs :
        pc[p] = "done" =>
            /\ usedFrom[p] \in Procs
            /\ monoOut[p] = AloneDoc(src[usedFrom[p]])

\* C10, witness: an invocation has completed with a final document built from
\* the other invocation's silhouette, not the one it would build alone.
C10_Witness ==
    \E p \in Procs :
        /\ pc[p] = "done"
        /\ usedFrom[p] # p
        /\ monoOut[p] = AloneDoc(src[usedFrom[p]])
        /\ monoOut[p] # AloneDoc(src[p])

=============================================================================
